---- MODULE Spec2Model ----
(***************************************************************************)
(* One call of Cp2kBaseParser.parse / Cp2kAdvancedParser.parse of          *)
(* aiida_cp2k/parsers/__init__.py.                                         *)
(*                                                                         *)
(* The call is modelled as the sequence of its stages                      *)
(*   start -> stdout -> create -> trajectory -> done                       *)
(* and may leave the sequence early by returning an exit code (done) or    *)
(* by an exception that escapes parse (raised).                            *)
(*                                                                         *)
(* A Python dict is a function whose domain is its key set.  Eigenvalues   *)
(* are integers in tenths of an atomic unit.  Python list indexing is      *)
(* modelled as Python does it: index i of a list of length n is valid iff  *)
(* -n <= i < n, a negative index counts from the end, anything else is an  *)
(* IndexError.                                                             *)
(***************************************************************************)
EXTENDS Integers, Sequences, FiniteSets, TLC

VARIABLES
    parser,           \* class of self: "base" or "advanced"
    hasRetrieved,     \* self.retrieved exists
    stdoutPresent,    \* output_filename in retrieved.list_object_names()
    stdoutReadable,   \* get_object_content(output_filename) does not raise IOError
    restartPresent,   \* _DEFAULT_RESTART_FILE_NAME in retrieved.list_object_names()
    restartReadable,  \* get_object_content(restart file) does not raise IOError
    scanned,          \* what parse_cp2k_output yields for the stdout content
    pc,               \* position of the call
    returned,         \* the local `returned` of parse
    lumo,             \* the locals <<lumo_spin1_idx, lumo_spin2_idx>> (<<>> when not computed)
    outs,             \* the self.out(label, value) calls, in order
    reads,            \* the get_object_content(fname) calls, in order
    exit,             \* value returned by parse ("none" while running or when raised)
    raised            \* exception escaping parse ("none" when none)

vars == <<parser, hasRetrieved, stdoutPresent, stdoutReadable, restartPresent,
          restartReadable, scanned, pc, returned, lumo, outs, reads, exit, raised>>

inputs == <<parser, hasRetrieved, stdoutPresent, stdoutReadable, restartPresent,
            restartReadable, scanned>>

-----------------------------------------------------------------------------
(* Bounds *)

MaxLen == 4     \* longest eigenvalue list
MaxNel == 5     \* largest init_nel_spin1 / init_nel_spin2

-----------------------------------------------------------------------------
(* Exit codes and exceptions *)

ERROR_NO_RETRIEVED_FOLDER == "ERROR_NO_RETRIEVED_FOLDER"
ERROR_OUTPUT_STDOUT_MISSING == "ERROR_OUTPUT_STDOUT_MISSING"
ERROR_OUTPUT_STDOUT_READ == "ERROR_OUTPUT_STDOUT_READ"
ERROR_GEOMETRY_CONVERGENCE_NOT_REACHED == "ERROR_GEOMETRY_CONVERGENCE_NOT_REACHED"
ERROR_UKS_NEEDED == "ERROR_UKS_NEEDED"
ERROR_OUTPUT_CONTAINS_ABORT == "ERROR_OUTPUT_CONTAINS_ABORT"
ExitCode0 == "ExitCode(0)"

NotExistent == "NotExistent"
IndexError == "IndexError"
KeyError == "KeyError"

-----------------------------------------------------------------------------
(* Python dict and list primitives *)

EmptyDict == [k \in {} |-> TRUE]

Keys(d) == DOMAIN d

\* d[k] = v
SetItem(d, k, v) == [x \in (DOMAIN d) \cup {k} |-> IF x = k THEN v ELSE d[x]]

\* del d[k]
DelItem(d, k) == [x \in (DOMAIN d) \ {k} |-> d[x]]

\* l[i] is defined
IndexOk(l, i) == (0 - Len(l)) <= i /\ i < Len(l)

\* l[i], for a valid i
GetItem(l, i) == IF i >= 0 THEN l[i + 1] ELSE l[Len(l) + i + 1]

-----------------------------------------------------------------------------
(* The mappings parse_cp2k_output can yield *)

Sentinels == {"geo_not_converged", "uks_needed", "aborted"}

\* eigenvalue lists: the first l entries of a rising ladder whose steps all
\* differ, so that a gap identifies the pair of entries it was taken from
Ladder1(i) == CASE i = 1 -> -10 [] i = 2 -> -5 [] i = 3 -> 2 [] i = 4 -> 8
                [] OTHER -> i * i
Ladder2(i) == 2 * i * i - i - 12

Eigen1(l) == [i \in 1..l |-> Ladder1(i)]
Eigen2(l) == [i \in 1..l |-> Ladder2(i)]

Kpoint1 == [kpoints |-> <<"G">>, labels |-> <<"GAMMA">>, bands |-> <<-3>>, bands_unit |-> "eV"]
Kpoint2 == [kpoints |-> <<"G", "X">>, labels |-> <<"GAMMA", "X">>, bands |-> <<-3, 4>>,
            bands_unit |-> "hartree"]

BaseKeys == [energy |-> -171]

SentinelParts == {[k \in s |-> TRUE] : s \in SUBSET Sentinels}

KpointParts == {EmptyDict, [kpoint_data |-> Kpoint1], [kpoint_data |-> Kpoint2]}

EigenParts ==
    {EmptyDict}
    \cup {[dft_type |-> "RKS", eigen_spin1_au |-> Eigen1(l),
           init_nel_spin1 |-> n1, init_nel_spin2 |-> n2] :
              l \in 0..MaxLen, n1 \in 0..MaxNel, n2 \in 0..MaxNel}
    \cup {[dft_type |-> "UKS", eigen_spin1_au |-> Eigen1(l[1]), eigen_spin2_au |-> Eigen2(l[2]),
           init_nel_spin1 |-> n1, init_nel_spin2 |-> n2] :
              l \in (0..MaxLen) \X (0..MaxLen), n1 \in 0..MaxNel, n2 \in 0..MaxNel}

parse_cp2k_output ==
    {BaseKeys @@ s @@ e @@ k : s \in SentinelParts, e \in EigenParts, k \in KpointParts}

-----------------------------------------------------------------------------
(* Cp2kBaseParser._parse_stdout *)

Exit(code) == [kind |-> "exit", code |-> code]
Dict(d) == [kind |-> "dict", dict |-> d]
Raise(exc) == [kind |-> "raise", exc |-> exc]
Structure == [kind |-> "structure"]

SentinelOutcomeAbortFirst(result_dict) ==
    IF "geo_not_converged" \in Keys(result_dict)
        THEN Exit(ERROR_GEOMETRY_CONVERGENCE_NOT_REACHED)
    ELSE IF "aborted" \in Keys(result_dict)
        THEN Exit(ERROR_OUTPUT_CONTAINS_ABORT)
    ELSE IF "uks_needed" \in Keys(result_dict)
        THEN Exit(ERROR_UKS_NEEDED)
    ELSE Dict(result_dict)

SentinelOutcomeNoUks(result_dict) ==
    IF "geo_not_converged" \in Keys(result_dict)
        THEN Exit(ERROR_GEOMETRY_CONVERGENCE_NOT_REACHED)
    ELSE IF "aborted" \in Keys(result_dict)
        THEN Exit(ERROR_OUTPUT_CONTAINS_ABORT)
    ELSE Dict(result_dict)

SentinelOutcomeNoAbort(result_dict) ==
    IF "geo_not_converged" \in Keys(result_dict)
        THEN Exit(ERROR_GEOMETRY_CONVERGENCE_NOT_REACHED)
    ELSE IF "uks_needed" \in Keys(result_dict)
        THEN Exit(ERROR_UKS_NEEDED)
    ELSE Dict(result_dict)

\* lines 67-75: the sentinel checks
SentinelOutcome(result_dict) ==
    IF "geo_not_converged" \in Keys(result_dict)
        THEN Exit(ERROR_GEOMETRY_CONVERGENCE_NOT_REACHED)
    ELSE IF "uks_needed" \in Keys(result_dict)
        THEN Exit(ERROR_UKS_NEEDED)
    ELSE IF "aborted" \in Keys(result_dict)
        THEN Exit(ERROR_OUTPUT_CONTAINS_ABORT)
    ELSE Dict(result_dict)

_parse_stdout_swallow(present, readable, content) ==
    IF ~present THEN Exit(ERROR_OUTPUT_STDOUT_MISSING)
    ELSE IF ~readable THEN Dict(EmptyDict)
    ELSE SentinelOutcome(content)

\* lines 55-65, then the sentinel checks
_parse_stdout(present, readable, content) ==
    IF ~present THEN Exit(ERROR_OUTPUT_STDOUT_MISSING)
    ELSE IF ~readable THEN Exit(ERROR_OUTPUT_STDOUT_READ)
    ELSE SentinelOutcome(content)

\* the get_object_content calls _parse_stdout makes
StdoutReads(present) == IF present THEN <<"stdout">> ELSE <<>>

-----------------------------------------------------------------------------
(* Cp2kBaseParser._parse_trajectory *)

_parse_trajectory(present, readable) ==
    IF ~present THEN Raise(NotExistent)
    ELSE IF ~readable THEN Exit(ERROR_OUTPUT_STDOUT_READ)
    ELSE Structure

TrajectoryReads(present) == IF present THEN <<"restart">> ELSE <<>>

\* parse, lines 41-50: what parse returns for a result of _parse_trajectory
TrajectoryExit(result) ==
    CASE result.kind = "structure" -> ExitCode0   \* line 44, then line 50
      [] result.kind = "exit" -> result.code      \* line 46
      [] result.kind = "raise" -> ExitCode0       \* lines 47-48, then line 50

-----------------------------------------------------------------------------
(* Cp2kAdvancedParser._create_output_nodes *)

SynthesizeUnrestricted(result_dict) ==
    IF result_dict["dft_type"] = "UKS"
        THEN SetItem(result_dict, "eigen_spin2_au", result_dict["eigen_spin1_au"])
        ELSE result_dict

\* lines 107-108: a restricted run gets a second channel equal to the first
Synthesize(result_dict) ==
    IF result_dict["dft_type"] = "RKS"
        THEN SetItem(result_dict, "eigen_spin2_au", result_dict["eigen_spin1_au"])
        ELSE result_dict

LumoIdxClampToLen(result_dict) ==
    LET lumo_spin1_idx == result_dict["init_nel_spin1"]
        lumo_spin2_idx == result_dict["init_nel_spin2"]
    IN  IF \/ lumo_spin1_idx > Len(result_dict["eigen_spin1_au"]) - 1
           \/ lumo_spin2_idx > Len(result_dict["eigen_spin2_au"]) - 1
            THEN <<Len(result_dict["eigen_spin1_au"]), Len(result_dict["eigen_spin2_au"])>>
            ELSE <<lumo_spin1_idx, lumo_spin2_idx>>

\* lines 110-116: <<lumo_spin1_idx, lumo_spin2_idx>> after the clamp
LumoIdx(result_dict) ==
    LET lumo_spin1_idx == result_dict["init_nel_spin1"]
        lumo_spin2_idx == result_dict["init_nel_spin2"]
    IN  IF \/ lumo_spin1_idx > Len(result_dict["eigen_spin1_au"]) - 1
           \/ lumo_spin2_idx > Len(result_dict["eigen_spin2_au"]) - 1
            THEN <<Len(result_dict["eigen_spin1_au"]) - 1,
                   Len(result_dict["eigen_spin2_au"]) - 1>>
            ELSE <<lumo_spin1_idx, lumo_spin2_idx>>

\* lines 117-120: every list access of the gap computation is defined
GapIndexOk(eigen, lumo_idx) == IndexOk(eigen, lumo_idx - 1) /\ IndexOk(eigen, lumo_idx)

\* lines 117-122: lumo - homo of one channel
BandGap(eigen, lumo_idx) == GetItem(eigen, lumo_idx) - GetItem(eigen, lumo_idx - 1)

\* the keys lines 107-111 look up besides eigen_spin1_au
GapKeys == {"dft_type", "init_nel_spin1", "init_nel_spin2"}

\* lines 105-122: the mapping after the band-gap block, or the exception it raises
GapStep(result_dict) ==
    IF "eigen_spin1_au" \notin Keys(result_dict)
        THEN [raised |-> "none", dict |-> result_dict, lumo |-> <<>>]
    ELSE IF ~(GapKeys \subseteq Keys(result_dict))
        THEN [raised |-> KeyError, dict |-> result_dict, lumo |-> <<>>]
    ELSE LET d == Synthesize(result_dict) IN
         IF "eigen_spin2_au" \notin Keys(d)
            THEN [raised |-> KeyError, dict |-> d, lumo |-> <<>>]
         ELSE LET idx == LumoIdx(d) IN
              IF ~(GapIndexOk(d["eigen_spin1_au"], idx[1]) /\ GapIndexOk(d["eigen_spin2_au"], idx[2]))
                 THEN [raised |-> IndexError, dict |-> d, lumo |-> idx]
              ELSE [raised |-> "none",
                    dict |-> SetItem(SetItem(d, "bandgap_spin1_au", BandGap(d["eigen_spin1_au"], idx[1])),
                                     "bandgap_spin2_au", BandGap(d["eigen_spin2_au"], idx[2])),
                    lumo |-> idx]

\* lines 125-131: the BandsData node built from kpoint_data
BandsData(kpoint_data) ==
    [kpoints |-> kpoint_data.kpoints, labels |-> kpoint_data.labels,
     bands |-> kpoint_data.bands, units |-> kpoint_data.bands_unit]

\* lines 124-134: the self.out calls of the k-point block and of the last line
KpointStep(result_dict) ==
    IF "kpoint_data" \in Keys(result_dict)
        THEN <<[label |-> "output_bands", value |-> BandsData(result_dict["kpoint_data"])],
               [label |-> "output_parameters", value |-> DelItem(result_dict, "kpoint_data")]>>
        ELSE <<[label |-> "output_parameters", value |-> result_dict]>>

-----------------------------------------------------------------------------
(* State machine *)

Init ==
    /\ parser \in {"base", "advanced"}
    /\ hasRetrieved \in BOOLEAN
    /\ stdoutPresent \in BOOLEAN
    /\ stdoutReadable \in BOOLEAN
    /\ restartPresent \in BOOLEAN
    /\ restartReadable \in BOOLEAN
    \* only a file of an existing folder is present, only a present file is readable
    /\ stdoutPresent => hasRetrieved
    /\ restartPresent => hasRetrieved
    /\ stdoutReadable => stdoutPresent
    /\ restartReadable => restartPresent
    \* without readable content there is nothing for parse_cp2k_output to scan
    /\ scanned \in IF stdoutReadable THEN parse_cp2k_output ELSE {EmptyDict}
    /\ pc = "start"
    /\ returned = [kind |-> "none"]
    /\ lumo = <<>>
    /\ outs = <<>>
    /\ reads = <<>>
    /\ exit = "none"
    /\ raised = "none"

\* parse, lines 29-32
Retrieved ==
    /\ pc = "start"
    /\ IF hasRetrieved
          THEN pc' = "stdout" /\ exit' = exit
          ELSE pc' = "done" /\ exit' = ERROR_NO_RETRIEVED_FOLDER
    /\ UNCHANGED <<inputs, returned, lumo, outs, reads, raised>>

\* parse, lines 35-39, with the call of _parse_stdout
ParseStdout ==
    /\ pc = "stdout"
    /\ returned' = _parse_stdout(stdoutPresent, stdoutReadable, scanned)
    /\ reads' = reads \o StdoutReads(stdoutPresent)
    /\ IF returned'.kind = "dict"
          THEN pc' = "create" /\ exit' = exit
          ELSE pc' = "done" /\ exit' = returned'.code
    /\ UNCHANGED <<inputs, lumo, outs, raised>>

\* Cp2kBaseParser._create_output_nodes, lines 96-97
BaseCreateOutputNodes ==
    /\ pc = "create"
    /\ parser = "base"
    /\ outs' = Append(outs, [label |-> "output_parameters", value |-> returned.dict])
    /\ pc' = "trajectory"
    /\ UNCHANGED <<inputs, returned, lumo, reads, exit, raised>>

\* Cp2kAdvancedParser._create_output_nodes, lines 104-134
AdvancedCreateOutputNodes ==
    /\ pc = "create"
    /\ parser = "advanced"
    /\ LET gap == GapStep(returned.dict) IN
        /\ lumo' = gap.lumo
        /\ IF gap.raised = "none"
              THEN /\ outs' = outs \o KpointStep(gap.dict)
                   /\ pc' = "trajectory"
                   /\ raised' = raised
              ELSE /\ outs' = outs
                   /\ pc' = "raised"
                   /\ raised' = gap.raised
    /\ UNCHANGED <<inputs, returned, reads, exit>>

\* parse, lines 41-50, with the call of _parse_trajectory
ParseTrajectory ==
    /\ pc = "trajectory"
    /\ returned' = _parse_trajectory(restartPresent, restartReadable)
    /\ reads' = reads \o TrajectoryReads(restartPresent)
    /\ pc' = "done"
    /\ outs' = IF returned'.kind = "structure"
                  THEN Append(outs, [label |-> "output_structure", value |-> returned'])
                  ELSE outs
    /\ exit' = TrajectoryExit(returned')
    /\ UNCHANGED <<inputs, lumo, raised>>

Next ==
    \/ Retrieved
    \/ ParseStdout
    \/ BaseCreateOutputNodes
    \/ AdvancedCreateOutputNodes
    \/ ParseTrajectory

Spec == Init /\ [][Next]_vars

-----------------------------------------------------------------------------
(* Vocabulary of the properties *)

\* parse has returned or an exception has escaped it
Finished == pc \in {"done", "raised"}

\* parse_cp2k_output was called on the stdout content
StdoutScanned == hasRetrieved /\ stdoutPresent /\ stdoutReadable /\ pc \notin {"start", "stdout"}

NoSentinel == Keys(scanned) \cap Sentinels = {}

\* _create_output_nodes has been called and has ended, by return or by exception
Assembled == StdoutScanned /\ NoSentinel /\ pc \in {"trajectory", "done", "raised"}

Emitted(label) == \E i \in 1..Len(outs) : outs[i].label = label

\* the value of the first self.out(label, ...) call
Output(label) == outs[CHOOSE i \in 1..Len(outs) : outs[i].label = label].value

\* both channels as the band-gap block sees them
Channel1 == scanned["eigen_spin1_au"]
Channel2 == IF scanned["dft_type"] = "RKS" THEN scanned["eigen_spin1_au"] ELSE scanned["eigen_spin2_au"]

\* eigen[idx] - eigen[idx-1] as Python reads it, for 0 <= idx <= len-1 of a
\* list written as a 1-based sequence: eigen[-1] is the last entry
GapAt(eigen, idx) == eigen[idx + 1] - eigen[IF idx = 0 THEN Len(eigen) ELSE idx]

-----------------------------------------------------------------------------
(* C1 *)

\* C1: for every scanned mapping exactly one outcome is reported, with the
\* precedence geo_not_converged > uks_needed > aborted > normal: parse returns
\* ERROR_GEOMETRY_CONVERGENCE_NOT_REACHED if geo_not_converged is a key,
\* otherwise ERROR_UKS_NEEDED if uks_needed is a key, otherwise
\* ERROR_OUTPUT_CONTAINS_ABORT if aborted is a key, and _parse_stdout hands
\* the mapping itself to _create_output_nodes iff none of the three is a key.
C1_Precedence ==
    StdoutScanned =>
        /\ "geo_not_converged" \in Keys(scanned)
              => pc = "done" /\ exit = ERROR_GEOMETRY_CONVERGENCE_NOT_REACHED
        /\ "geo_not_converged" \notin Keys(scanned) /\ "uks_needed" \in Keys(scanned)
              => pc = "done" /\ exit = ERROR_UKS_NEEDED
        /\ {"geo_not_converged", "uks_needed"} \cap Keys(scanned) = {} /\ "aborted" \in Keys(scanned)
              => pc = "done" /\ exit = ERROR_OUTPUT_CONTAINS_ABORT
        /\ NoSentinel
              => /\ exit \notin {ERROR_GEOMETRY_CONVERGENCE_NOT_REACHED, ERROR_UKS_NEEDED,
                                 ERROR_OUTPUT_CONTAINS_ABORT}
                 /\ pc = "create" => returned.kind = "dict" /\ returned.dict = scanned
        /\ pc = "create" => NoSentinel

C1_Witness ==
    /\ pc = "done"
    /\ StdoutScanned
    /\ Keys(scanned) \cap Sentinels = {"uks_needed", "aborted"}
    /\ exit = ERROR_UKS_NEEDED

-----------------------------------------------------------------------------
(* C2 *)

FailureConditions == {"stdout_missing", "stdout_unreadable", "restart_missing", "restart_unreadable"}

\* the input-failure condition the finished call ran into ("none" if none)
Condition ==
    IF ~stdoutPresent THEN "stdout_missing"
    ELSE IF ~stdoutReadable THEN "stdout_unreadable"
    ELSE IF ~NoSentinel THEN "none"
    ELSE IF ~restartPresent THEN "restart_missing"
    ELSE IF ~restartReadable THEN "restart_unreadable"
    ELSE "none"

\* what parse returns when it runs into condition c
FailureSignal(c) ==
    CASE c = "stdout_missing" -> _parse_stdout(FALSE, FALSE, EmptyDict).code
      [] c = "stdout_unreadable" -> _parse_stdout(TRUE, FALSE, EmptyDict).code
      [] c = "restart_missing" -> TrajectoryExit(_parse_trajectory(FALSE, FALSE))
      [] c = "restart_unreadable" -> TrajectoryExit(_parse_trajectory(TRUE, FALSE))

\* C2: the four input-failure conditions are signalled distinguishably: the
\* value parse returns for one of them is returned for none of the other three.
C2_Distinguishable ==
    (pc = "done" /\ hasRetrieved /\ Condition \in FailureConditions) =>
        \A c \in FailureConditions \ {Condition} : FailureSignal(c) # exit

-----------------------------------------------------------------------------
(* C3 *)

\* C3: trajectory absence is non-fatal: whenever stdout parsing yields a normal
\* mapping and the restart file is not among the retrieved objects, the call
\* ends with output_parameters emitted, no output_structure emitted and
\* ExitCode(0) returned, _parse_trajectory having raised NotExistent.
C3_AbsenceNonFatal ==
    (Finished /\ StdoutScanned /\ NoSentinel /\ ~restartPresent) =>
        /\ pc = "done"
        /\ returned = Raise(NotExistent)
        /\ exit = ExitCode0
        /\ Emitted("output_parameters")
        /\ ~Emitted("output_structure")

-----------------------------------------------------------------------------
(* C4 *)

\* C4: whenever the mapping passed to the advanced assembler contains
\* kpoint_data, output_parameters is emitted without a kpoint_data key and
\* with every other key of the mapping as it was, and output_bands is emitted
\* with the kpoints, labels, bands and unit of kpoint_data.
C4_KpointPromoted ==
    (parser = "advanced" /\ Assembled /\ "kpoint_data" \in Keys(scanned)) =>
        /\ Emitted("output_bands")
        /\ Emitted("output_parameters")
        /\ Output("output_bands").kpoints = scanned["kpoint_data"].kpoints
        /\ Output("output_bands").labels = scanned["kpoint_data"].labels
        /\ Output("output_bands").bands = scanned["kpoint_data"].bands
        /\ Output("output_bands").units = scanned["kpoint_data"].bands_unit
        /\ "kpoint_data" \notin Keys(Output("output_parameters"))
        /\ \A k \in Keys(scanned) \ {"kpoint_data"} :
              /\ k \in Keys(Output("output_parameters"))
              /\ Output("output_parameters")[k] = scanned[k]

-----------------------------------------------------------------------------
(* C5 *)

\* C5, as stated: for every scanned mapping that contains kpoint_data the
\* advanced parser's parse call produces output_bands whichever outcome it
\* reports, sentinel outcomes included.
C5_BandsRegardless ==
    (parser = "advanced" /\ pc = "done" /\ StdoutScanned /\ "kpoint_data" \in Keys(scanned)) =>
        Emitted("output_bands")

\* C5, amended: for every scanned mapping that contains kpoint_data, a parse
\* call of the advanced parser that reports an outcome has produced
\* output_bands exactly when that outcome is not selected by a sentinel; no
\* call produces output_bands for a mapping without kpoint_data or with a
\* sentinel.
C5_BandsIffNormal ==
    /\ (parser = "advanced" /\ pc = "done" /\ StdoutScanned /\ "kpoint_data" \in Keys(scanned)) =>
          (Emitted("output_bands") <=> NoSentinel)
    /\ Emitted("output_bands") =>
          parser = "advanced" /\ StdoutScanned /\ NoSentinel /\ "kpoint_data" \in Keys(scanned)

C5_Witness ==
    /\ parser = "advanced"
    /\ pc = "done"
    /\ StdoutScanned
    /\ "kpoint_data" \in Keys(scanned)
    /\ "aborted" \in Keys(scanned)
    /\ exit = ERROR_OUTPUT_CONTAINS_ABORT
    /\ ~Emitted("output_bands")

-----------------------------------------------------------------------------
(* C6 *)

\* C6: sentinel keys are never user-visible: no output_parameters mapping
\* emitted by the base or the advanced parser has geo_not_converged,
\* uks_needed or aborted among its keys.
C6_NoSentinelEmitted ==
    \A i \in 1..Len(outs) :
        outs[i].label = "output_parameters" => Keys(outs[i].value) \cap Sentinels = {}

C6_Witness ==
    /\ pc = "done"
    /\ parser = "advanced"
    /\ Emitted("output_parameters")
    /\ "kpoint_data" \in Keys(scanned)
    /\ "eigen_spin1_au" \in Keys(scanned)

-----------------------------------------------------------------------------
(* C7 *)

\* an index of either channel exceeds the channel's last valid index
OutOfBounds ==
    \/ scanned["init_nel_spin1"] > Len(Channel1) - 1
    \/ scanned["init_nel_spin2"] > Len(Channel2) - 1

\* C7: when eigen_spin1_au is present no error is raised; if the index of
\* either channel exceeds len-1 both indices are set to their own len-1,
\* otherwise both stay init_nel; each emitted band gap is
\* eigen[idx] - eigen[idx-1] for the resulting idx.
C7_ClampRule ==
    (parser = "advanced" /\ Assembled /\ "eigen_spin1_au" \in Keys(scanned)) =>
        /\ raised = "none"
        /\ lumo = IF OutOfBounds
                     THEN <<Len(Channel1) - 1, Len(Channel2) - 1>>
                     ELSE <<scanned["init_nel_spin1"], scanned["init_nel_spin2"]>>
        /\ Output("output_parameters")["bandgap_spin1_au"] = GapAt(Channel1, lumo[1])
        /\ Output("output_parameters")["bandgap_spin2_au"] = GapAt(Channel2, lumo[2])

-----------------------------------------------------------------------------
(* C8 *)

\* C8: when dft_type is RKS and eigen_spin1_au is present, eigen_spin2_au is
\* set to eigen_spin1_au before the gap computation: for every eigenvalue
\* list and every init_nel_spin1 = init_nel_spin2 = n with 0 <= n <= len-1,
\* bandgap_spin1_au = bandgap_spin2_au = eigen_spin1_au[n] - eigen_spin1_au[n-1]
\* (<<-10, -5, 2, 8>> with n = 2 gives 7 for both channels).
C8_RestrictedGap ==
    (/\ parser = "advanced" /\ Assembled /\ "eigen_spin1_au" \in Keys(scanned)
     /\ scanned["dft_type"] = "RKS"
     /\ scanned["init_nel_spin1"] = scanned["init_nel_spin2"]
     /\ scanned["init_nel_spin1"] <= Len(scanned["eigen_spin1_au"]) - 1) =>
        /\ raised = "none"
        /\ Emitted("output_parameters")
        /\ Output("output_parameters")["eigen_spin2_au"] = scanned["eigen_spin1_au"]
        /\ Output("output_parameters")["bandgap_spin1_au"]
              = GapAt(scanned["eigen_spin1_au"], scanned["init_nel_spin1"])
        /\ Output("output_parameters")["bandgap_spin2_au"]
              = GapAt(scanned["eigen_spin1_au"], scanned["init_nel_spin1"])

C8_Witness ==
    /\ parser = "advanced"
    /\ pc = "done"
    /\ Assembled
    /\ "eigen_spin1_au" \in Keys(scanned)
    /\ scanned["dft_type"] = "RKS"
    /\ scanned["eigen_spin1_au"] = <<-10, -5, 2, 8>>
    /\ scanned["init_nel_spin1"] = 2
    /\ scanned["init_nel_spin2"] = 2
    /\ Output("output_parameters")["bandgap_spin1_au"] = 7
    /\ Output("output_parameters")["bandgap_spin2_au"] = 7

-----------------------------------------------------------------------------
(* C9 *)

\* the outcome of the call is decided at or before the stdout stage
DecidedByStdout ==
    \/ ~hasRetrieved
    \/ ~stdoutPresent
    \/ ~stdoutReadable
    \/ ~NoSentinel

NoRestartRead == \A i \in 1..Len(reads) : reads[i] # "restart"

\* C9: outputs are emitted only after stdout parsing succeeded: up to the end
\* of the stdout stage, and in every call whose outcome is decided at or
\* before it (no retrieved folder, stdout missing or unreadable, a sentinel),
\* nothing has been emitted and the restart file has not been read; and
\* output_structure is only emitted after output_parameters.
C9_Ordering ==
    /\ pc \in {"start", "stdout"} => outs = <<>> /\ NoRestartRead
    /\ (pc = "done" /\ DecidedByStdout) => outs = <<>> /\ NoRestartRead
    /\ \A i \in 1..Len(outs) :
          outs[i].label = "output_structure" =>
              \E j \in 1..(i - 1) : outs[j].label = "output_parameters"

C9_Witness ==
    /\ pc = "done"
    /\ StdoutScanned
    /\ ~NoSentinel
    /\ restartPresent
    /\ restartReadable
    /\ outs = <<>>
    /\ reads = <<"stdout">>

-----------------------------------------------------------------------------
(* C10 *)

\* C10: for eigenvalue lists of length at least 2 and init_nel_spin1,
\* init_nel_spin2 >= 1, after the clamp the LUMO index idx and the HOMO index
\* idx-1 of each channel lie in [0, len-1]: no access is out of bounds, no
\* index is negative, and each gap is the difference of two adjacent entries.
C10_IndexValid ==
    (/\ parser = "advanced" /\ Assembled /\ "eigen_spin1_au" \in Keys(scanned)
     /\ Len(Channel1) >= 2 /\ Len(Channel2) >= 2
     /\ scanned["init_nel_spin1"] >= 1 /\ scanned["init_nel_spin2"] >= 1) =>
        /\ raised = "none"
        /\ lumo[1] \in 1..(Len(Channel1) - 1)
        /\ lumo[2] \in 1..(Len(Channel2) - 1)
        /\ Output("output_parameters")["bandgap_spin1_au"]
              = Channel1[lumo[1] + 1] - Channel1[lumo[1]]
        /\ Output("output_parameters")["bandgap_spin2_au"]
              = Channel2[lumo[2] + 1] - Channel2[lumo[2]]

C10_Witness ==
    /\ parser = "advanced"
    /\ pc = "done"
    /\ Assembled
    /\ "eigen_spin1_au" \in Keys(scanned)
    /\ scanned["dft_type"] = "UKS"
    /\ Len(Channel1) = 2
    /\ Len(Channel2) = 3
    /\ scanned["init_nel_spin1"] = 2
    /\ scanned["init_nel_spin2"] = 1
    /\ lumo = <<1, 2>>

====
